---- MODULE Spec2Model ----
(***************************************************************************)
(* Model of the Polymarket scoring-and-recommendation pipeline:            *)
(*   ai_trading_system.py        (PolymarketTradingAI)                      *)
(*   enhanced_market_analyzer.py (EnhancedMarketAnalyzer)                   *)
(*   simple_market_analyzer.py   (SimpleMarketAnalyzer)                     *)
(*                                                                         *)
(* Numbers.  Scores are Python floats in the source.  They are modelled    *)
(* exactly, as integers counting units of 1/Scale, so that 0.5 is          *)
(* Scale \div 2 and every band increment, weight and keyword ratio that    *)
(* the modelled inputs produce is a whole number of units.  Volumes and    *)
(* liquidities are whole currency units.  Instants are whole ticks         *)
(* relative to the current time (t > 0 is in the future).                  *)
(***************************************************************************)
EXTENDS Integers, Sequences, FiniteSets, TLC

VARIABLES
    variant,        \* which script runs: "ai", "enhanced" or "simple"
    pc,             \* position of the run
    event,          \* analyze_market_for_trading: the event argument
    market,         \* the market being normalised / scored
    chain_of_thought, \* the reasoning trace built so far
    analysis_data,  \* the record analyze/research returns
    parts,          \* intermediate results of the steps already taken
    active_markets, \* batch: markets kept by the filter loop
    recommendations,\* batch: results of the analysed markets
    supplied,       \* batch: number of markets the filter loop kept
    result          \* batch: what the run returns (or the exception raised)

vars == <<variant, pc, event, market, chain_of_thought, analysis_data, parts,
          active_markets, recommendations, supplied, result>>

-----------------------------------------------------------------------------
(* Arithmetic on scores *)

Scale == 2520 * 3 * 100

\* n hundredths, as a score
Pct(n) == n * (Scale \div 100)

Half == Scale \div 2

Min(a, b) == IF a < b THEN a ELSE b
Max(a, b) == IF a > b THEN a ELSE b

\* min(max(score, 0.0), 1.0)
Clamp01(score) == Min(Max(score, 0), Scale)

\* pos_count / (pos_count + neg_count)
Ratio(pos, neg) == (pos * Scale) \div (pos + neg)

\* "{x:.2f}": x rounded to hundredths, printed with two decimals
Hundredths(x) == (x * 100 + Half) \div Scale

Fmt2(x) ==
    LET h == Hundredths(x)
        a == IF h < 0 THEN -h ELSE h
        frac == a % 100
    IN (IF h < 0 THEN "-" ELSE "") \o ToString(a \div 100) \o "."
       \o (IF frac < 10 THEN "0" ELSE "") \o ToString(frac)

\* "{x:,.0f}" of a whole amount (digit grouping is not modelled)
Fmt0(x) == ToString(x)

-----------------------------------------------------------------------------
(* Raw JSON fields                                                          *)
(* A numeric field is missing, a number (or numeric string), or something   *)
(* float() rejects.  A timestamp field is missing (key absent), the empty   *)
(* string, an unparseable string, an ISO-8601 string without offset         *)
(* ("naive"), one with a trailing Z ("zulu") or one with an explicit        *)
(* +00:00 offset ("offset").                                                *)

Num(v) == [kind |-> "num", val |-> v]
NumMissing == [kind |-> "missing", val |-> 0]
NumBad == [kind |-> "bad", val |-> 0]

Stamp(k, t) == [kind |-> k, t |-> t]
StampMissing == Stamp("missing", 0)
StampEmpty == Stamp("empty", 0)
StampGarbage == Stamp("garbage", 0)

\* float(market.get(key, 0)) raises ValueError / TypeError
FloatRaises(f) == f.kind = "bad"

\* float(market.get(key, 0)) when it does not raise
FloatOf(f) == IF f.kind = "num" THEN f.val ELSE 0

\* `if end_date:` -- None and '' are falsy
Truthy(ts) == ts.kind \notin {"missing", "empty"}

\* end_date.replace('Z', '+00:00'): a trailing Z becomes an explicit offset
ReplaceZ(ts) == IF ts.kind = "zulu" THEN Stamp("offset", ts.t) ELSE ts

\* datetime.fromisoformat(s) succeeds
IsoParses(ts) == ts.kind \in {"naive", "offset"}

\* the parsed datetime carries a tzinfo
IsAware(ts) == ts.kind = "offset"

\* Comparing or subtracting an aware datetime and the naive datetime.now()
\* raises TypeError.
MixRaises(ts) == IsAware(ts)

\* Number of ticks in a day
TicksPerDay == 2

\* (end_dt - now).days : timedelta.days is the floor of the difference
DaysOf(ts) == ts.t \div TicksPerDay

-----------------------------------------------------------------------------
(* Question text                                                            *)
(* A question is modelled by the set of phrases it is made of.  A keyword   *)
(* test `word in question.lower()` is a substring test, so a phrase can     *)
(* contain a keyword without being one ("support" contains "up").           *)

\* str.lower() on the phrases the model uses
Lower(s) ==
    CASE s = "Growth" -> "growth"
      [] s = "RECOVERY" -> "recovery"
      [] s = "Sports" -> "sports"
      [] s = "POLITICS" -> "politics"
      [] OTHER -> s

\* The keywords that occur as substrings of a lower-case phrase
KeywordsIn(p) ==
    CASE p = "rate cuts" -> {"rate cut", "rate cuts"}
      [] p = "support" -> {"up"}
      [] p = "downfall" -> {"down", "fall"}
      [] OTHER -> {p}

\* word in question_lower
Contains(question, word) == \E p \in question : word \in KeywordsIn(Lower(p))

\* sum(1 for word in words if word in question_lower)
Count(words, question) ==
    Cardinality({i \in DOMAIN words : Contains(question, words[i])})

\* pos/(pos+neg) when a keyword was found, else 0.5
KeywordScore(pos_count, neg_count) ==
    IF pos_count + neg_count > 0 THEN Ratio(pos_count, neg_count) ELSE Half

-----------------------------------------------------------------------------
(* ai_trading_system.py: sentiment                                          *)

AI_positive_current ==
    <<"rate cut", "rate cuts", "stimulus", "growth", "recovery", "bullish", "positive">>
AI_negative_current ==
    <<"rate hike", "recession", "crisis", "crash", "bearish", "negative", "decline">>
AI_positive_words == <<"win", "success", "up", "rise", "gain", "beat", "victory">>
AI_negative_words == <<"lose", "fail", "down", "fall", "loss", "defeat">>
AI_positive_econ == <<"growth", "boom", "recovery", "increase", "improve", "strong">>
AI_negative_econ == <<"recession", "crisis", "decline", "weak", "fall", "crash">>
AI_positive_social == <<"trending", "popular", "viral", "hype", "excited", "optimistic">>
AI_negative_social == <<"controversy", "scandal", "concern", "worried", "pessimistic">>

\* Faulty variant of AI_get_reddit_sentiment: the current and the general
\* keywords are counted together
AI_get_reddit_sentiment_pooled(question) ==
    KeywordScore(Count(AI_positive_current, question) + Count(AI_positive_words, question),
                 Count(AI_negative_current, question) + Count(AI_negative_words, question))

AI_get_reddit_sentiment(question) ==
    LET pc0 == Count(AI_positive_current, question)
        nc0 == Count(AI_negative_current, question)
        general == pc0 + nc0 = 0
        pos_count == IF general THEN Count(AI_positive_words, question) ELSE pc0
        neg_count == IF general THEN Count(AI_negative_words, question) ELSE nc0
    IN KeywordScore(pos_count, neg_count)

AI_get_news_sentiment(question) ==
    KeywordScore(Count(AI_positive_econ, question), Count(AI_negative_econ, question))

AI_get_social_sentiment(question) ==
    KeywordScore(Count(AI_positive_social, question), Count(AI_negative_social, question))

\* sum(sentiment_scores) / len(sentiment_scores)
Mean3(a, b, c) == (a + b + c) \div 3

AI_analyze_market_sentiment(question) ==
    LET reddit_score == AI_get_reddit_sentiment(question)
        news_score == AI_get_news_sentiment(question)
        social_score == AI_get_social_sentiment(question)
        score == Mean3(reddit_score, news_score, social_score)
    IN [score |-> score,
        analysis |-> <<"  Reddit Sentiment Analysis:",
                       "    - Reddit sentiment: " \o Fmt2(reddit_score),
                       "  News Sentiment Analysis:",
                       "    - News sentiment: " \o Fmt2(news_score),
                       "  Social Media Sentiment:",
                       "    - Social sentiment: " \o Fmt2(social_score),
                       "  Overall sentiment score: " \o Fmt2(score)>>,
        sources |-> <<"Reddit API (free)", "News keyword analysis (free)",
                      "Social media keyword analysis (free)">>]

-----------------------------------------------------------------------------
(* ai_trading_system.py: historical performance and risk                    *)

\* Faulty variant of AI_volume_adjust: the band above 100000 is missing
AI_volume_adjust_three_bands(volume) ==
    IF volume > 50000 THEN Pct(10)
    ELSE IF volume > 10000 THEN 0
    ELSE -Pct(10)

AI_volume_adjust(volume) ==
    IF volume > 100000 THEN Pct(20)
    ELSE IF volume > 50000 THEN Pct(10)
    ELSE IF volume > 10000 THEN 0
    ELSE -Pct(10)

AI_liquidity_adjust(liquidity) ==
    IF liquidity > 10000 THEN Pct(20)
    ELSE IF liquidity > 1000 THEN Pct(10)
    ELSE IF liquidity > 100 THEN 0
    ELSE -Pct(20)

AI_category_adjust(category) ==
    IF Lower(category) \in {"sports", "politics", "crypto"} THEN Pct(10) ELSE 0

\* _analyze_historical_performance; event and market are records whose
\* numeric fields float() accepts (the callers parsed them before).
AI_analyze_historical_performance(ev, mk) ==
    LET volume == FloatOf(mk.volume)
        liquidity == FloatOf(mk.liquidity)
        category == ev.category
        score == Half + AI_volume_adjust(volume) + AI_liquidity_adjust(liquidity)
                      + AI_category_adjust(category)
    IN [score |-> Clamp01(score),
        analysis |-> <<"  Volume Analysis:",
                       IF volume > 100000 THEN "    - Very high volume (>$100K) - Strong interest"
                       ELSE IF volume > 50000 THEN "    - High volume (>$50K) - Good interest"
                       ELSE IF volume > 10000 THEN "    - Moderate volume (>$10K) - Decent interest"
                       ELSE "    - Low volume (<$10K) - Limited interest",
                       "  Liquidity Analysis:",
                       IF liquidity > 10000 THEN "    - High liquidity (>$10K) - Easy to trade"
                       ELSE IF liquidity > 1000 THEN "    - Good liquidity (>$1K) - Tradeable"
                       ELSE IF liquidity > 100 THEN "    - Low liquidity (>$100) - Hard to trade"
                       ELSE "    - Very low liquidity (<$100) - Very hard to trade",
                       "  Category Analysis:",
                       IF Lower(category) \in {"sports", "politics", "crypto"}
                       THEN "    - High-volatility category: " \o category
                       ELSE "    - Category: " \o category>>,
        sources |-> <<"Polymarket historical data (free)">>]

\* Faulty variant of AI_time_risk_adjust: a market ending within a month is
\* rated safer than one ending later
AI_time_risk_adjust_month_best(days_until_end) ==
    IF days_until_end <= 1 THEN -Pct(30)
    ELSE IF days_until_end <= 3 THEN -Pct(20)
    ELSE IF days_until_end <= 7 THEN -Pct(10)
    ELSE IF days_until_end <= 30 THEN Pct(30)
    ELSE Pct(20)

AI_time_risk_adjust(days_until_end) ==
    IF days_until_end <= 1 THEN -Pct(30)
    ELSE IF days_until_end <= 3 THEN -Pct(20)
    ELSE IF days_until_end <= 7 THEN -Pct(10)
    ELSE IF days_until_end <= 30 THEN Pct(10)
    ELSE Pct(20)

\* Faulty variant of AI_liquidity_risk_adjust: +0.2 for high liquidity
AI_liquidity_risk_adjust_generous(liquidity) ==
    IF liquidity > 5000 THEN Pct(20)
    ELSE IF liquidity > 1000 THEN 0
    ELSE -Pct(20)

AI_liquidity_risk_adjust(liquidity) ==
    IF liquidity > 5000 THEN Pct(10)
    ELSE IF liquidity > 1000 THEN 0
    ELSE -Pct(20)

AI_assess_trading_risk(mk, days_until_end) ==
    LET liquidity == FloatOf(mk.liquidity)
        score == Half + AI_time_risk_adjust(days_until_end)
                      + AI_liquidity_risk_adjust(liquidity)
    IN [score |-> Clamp01(score),
        analysis |-> <<"  Time Risk Analysis:",
                       IF days_until_end <= 1 THEN "    - Very high time risk (ends within 1 day)"
                       ELSE IF days_until_end <= 3 THEN "    - High time risk (ends within 3 days)"
                       ELSE IF days_until_end <= 7 THEN "    - Moderate time risk (ends within 1 week)"
                       ELSE IF days_until_end <= 30 THEN "    - Low time risk (ends within 1 month)"
                       ELSE "    - Very low time risk (ends in >1 month)",
                       "  Liquidity Risk Analysis:",
                       IF liquidity > 5000 THEN "    - Low liquidity risk (high liquidity)"
                       ELSE IF liquidity > 1000 THEN "    - Moderate liquidity risk"
                       ELSE "    - High liquidity risk (low liquidity)">>,
        sources |-> <<>>]

-----------------------------------------------------------------------------
(* ai_trading_system.py: recommendation                                     *)

\* Faulty variant of AI_overall_score: the weights sum to more than 1
AI_overall_score_overweight(sentiment_score, historical_score, risk_score) ==
    (sentiment_score * 4 + historical_score * 4 + risk_score * 3) \div 10

\* sentiment*0.4 + historical*0.3 + risk*0.3
AI_overall_score(sentiment_score, historical_score, risk_score) ==
    (sentiment_score * 4 + historical_score * 3 + risk_score * 3) \div 10

\* Faulty variant of AI_decide: only the outer bands (>= 0.6, <= 0.4) decide
AI_decide_outer_bands(overall_score) ==
    IF overall_score >= Pct(60) THEN
        [recommendation |-> "BUY", confidence |-> overall_score, reasoning |-> "BUY"]
    ELSE IF overall_score <= Pct(40) THEN
        [recommendation |-> "SELL", confidence |-> Scale - overall_score,
         reasoning |-> "SELL"]
    ELSE [recommendation |-> "HOLD", confidence |-> Half, reasoning |-> "HOLD"]

\* Faulty variant of AI_decide: each pair tests its looser threshold first, so
\* the tighter branch of the pair is never taken
AI_decide_looser_first(overall_score) ==
    IF overall_score >= Pct(55) THEN
        [recommendation |-> "BUY", confidence |-> overall_score,
         reasoning |-> "Positive signals with good confidence for current market (score: "
                        \o Fmt2(overall_score) \o ")"]
    ELSE IF overall_score <= Pct(45) THEN
        [recommendation |-> "SELL", confidence |-> Scale - overall_score,
         reasoning |-> "Negative signals with good confidence for current market (score: "
                        \o Fmt2(overall_score) \o ")"]
    ELSE
        [recommendation |-> "HOLD", confidence |-> Half,
         reasoning |-> "Mixed signals for current market (score: "
                        \o Fmt2(overall_score) \o ")"]

\* Faulty variant of AI_decide: a SELL reports the overall score itself as
\* its confidence
AI_decide_sell_raw(overall_score) ==
    IF overall_score >= Pct(55) THEN
        [recommendation |-> "BUY", confidence |-> overall_score, reasoning |-> "BUY"]
    ELSE IF overall_score <= Pct(45) THEN
        [recommendation |-> "SELL", confidence |-> overall_score, reasoning |-> "SELL"]
    ELSE [recommendation |-> "HOLD", confidence |-> Half, reasoning |-> "HOLD"]

\* The decision bands, first match wins
AI_decide(overall_score) ==
    IF overall_score >= Pct(60) THEN
        [recommendation |-> "BUY", confidence |-> overall_score,
         reasoning |-> "Strong positive signals for current market (score: "
                        \o Fmt2(overall_score) \o ")"]
    ELSE IF overall_score >= Pct(55) THEN
        [recommendation |-> "BUY", confidence |-> overall_score,
         reasoning |-> "Positive signals with good confidence for current market (score: "
                        \o Fmt2(overall_score) \o ")"]
    ELSE IF overall_score <= Pct(40) THEN
        [recommendation |-> "SELL", confidence |-> Scale - overall_score,
         reasoning |-> "Negative signals for current market (score: "
                        \o Fmt2(overall_score) \o ")"]
    ELSE IF overall_score <= Pct(45) THEN
        [recommendation |-> "SELL", confidence |-> Scale - overall_score,
         reasoning |-> "Negative signals with good confidence for current market (score: "
                        \o Fmt2(overall_score) \o ")"]
    ELSE
        [recommendation |-> "HOLD", confidence |-> Half,
         reasoning |-> "Mixed signals for current market (score: "
                        \o Fmt2(overall_score) \o ")"]

AI_generate_recommendation(volume, liquidity, days_until_end, sentiment_score, historical_score, risk_score) ==
    LET overall_score == AI_overall_score(sentiment_score, historical_score, risk_score)
        d == AI_decide(overall_score)
    IN [recommendation |-> d.recommendation,
        confidence |-> d.confidence,
        reasoning |-> d.reasoning,
        analysis |-> <<"  Overall Score Calculation:",
                       "    - Sentiment: " \o Fmt2(sentiment_score) \o " (weight: 0.4)",
                       "    - Historical: " \o Fmt2(historical_score) \o " (weight: 0.3)",
                       "    - Risk: " \o Fmt2(risk_score) \o " (weight: 0.3)",
                       "    - Overall Score: " \o Fmt2(overall_score),
                       "  Recommendation: " \o d.recommendation,
                       "  Confidence: " \o Fmt2(d.confidence),
                       "  Reasoning: " \o d.reasoning>>]

-----------------------------------------------------------------------------
(* ai_trading_system.py: analyze_market_for_trading                         *)

\* float() of the market's volume or liquidity raises
AI_analysis_raises(mk) == FloatRaises(mk.volume) \/ FloatRaises(mk.liquidity)

\* days_until_end: 0 unless the end date is present, parses and the
\* subtraction from datetime.now() succeeds
AI_days_until_end(mk) ==
    LET end_date == mk.endDate
        end_dt == ReplaceZ(end_date)
    IN IF Truthy(end_date) /\ IsoParses(end_dt) /\ ~MixRaises(end_dt)
       THEN DaysOf(end_dt)
       ELSE 0

\* STEP 1: the values read from the market (lines 124-135)
AI_step1_values(mk) ==
    [volume |-> FloatOf(mk.volume),
     liquidity |-> FloatOf(mk.liquidity),
     days_until_end |-> AI_days_until_end(mk)]

\* Faulty variant of AI_step1_lines: the trace is kept between calls, so a
\* call goes on from the trace of the call before it
AI_step1_lines_carried(v) ==
    (IF recommendations = <<>> THEN <<>>
     ELSE recommendations[Len(recommendations)].chain_of_thought)
    \o <<"STEP 1: Analyzing Polymarket Data",
         "  - Volume: $" \o Fmt0(v.volume),
         "  - Liquidity: $" \o Fmt0(v.liquidity),
         "  - Days until end: " \o ToString(v.days_until_end)>>

AI_step1_lines(v) ==
    <<"STEP 1: Analyzing Polymarket Data",
      "  - Volume: $" \o Fmt0(v.volume),
      "  - Liquidity: $" \o Fmt0(v.liquidity),
      "  - Days until end: " \o ToString(v.days_until_end)>>

\* Faulty variant of AI_step3_header: the header of STEP 2 is written again
AI_step3_header_repeated == "\nSTEP 2: Market Sentiment Analysis"

AI_step2_header == "\nSTEP 2: Market Sentiment Analysis"
AI_step3_header == "\nSTEP 3: Historical Performance Analysis"
AI_step4_header == "\nSTEP 4: Risk Assessment"
AI_step5_header == "\nSTEP 5: Generate Trading Recommendation"

\* The analysis_data record as first built (lines 110-119)
AI_initial_analysis_data(ev, mk) ==
    [event_id |-> ev.id, market_id |-> mk.id, question |-> mk.question,
     recommendation |-> "HOLD", confidence |-> Half, reasoning |-> "",
     data_sources |-> <<>>]

\* analysis_data.update({...}) (lines 172-182)
AI_updated_analysis_data(data, v, recommendation_data, sentiment_score, historical_score, risk_score) ==
    [event_id |-> data.event_id, market_id |-> data.market_id,
     question |-> data.question,
     data_sources |-> data.data_sources,
     recommendation |-> recommendation_data.recommendation,
     confidence |-> recommendation_data.confidence,
     reasoning |-> recommendation_data.reasoning,
     volume |-> v.volume,
     liquidity |-> v.liquidity,
     days_until_end |-> v.days_until_end,
     sentiment_score |-> sentiment_score,
     historical_score |-> historical_score,
     risk_score |-> risk_score]

\* The record with its trace, as run_trading_analysis keeps it
AI_with_chain(data, chain) ==
    [event_id |-> data.event_id, market_id |-> data.market_id,
     question |-> data.question,
     chain_of_thought |-> chain,
     data_sources |-> data.data_sources,
     recommendation |-> data.recommendation,
     confidence |-> data.confidence,
     reasoning |-> data.reasoning,
     volume |-> data.volume,
     liquidity |-> data.liquidity,
     days_until_end |-> data.days_until_end,
     sentiment_score |-> data.sentiment_score,
     historical_score |-> data.historical_score,
     risk_score |-> data.risk_score]

\* The whole call, for a market whose numeric fields float() accepts
AI_analyze_market_for_trading(ev, mk) ==
    LET v == AI_step1_values(mk)
        sentiment_data == AI_analyze_market_sentiment(mk.question)
        historical_data == AI_analyze_historical_performance(ev, mk)
        risk_data == AI_assess_trading_risk(mk, v.days_until_end)
        recommendation_data ==
            AI_generate_recommendation(v.volume, v.liquidity, v.days_until_end,
                                       sentiment_data.score, historical_data.score,
                                       risk_data.score)
        data0 == AI_initial_analysis_data(ev, mk)
        data1 == [data0 EXCEPT !.data_sources =
                      sentiment_data.sources \o historical_data.sources]
    IN AI_with_chain(
           AI_updated_analysis_data(data1, v, recommendation_data,
                                    sentiment_data.score, historical_data.score,
                                    risk_data.score),
           AI_step1_lines(v)
           \o <<AI_step2_header>> \o sentiment_data.analysis
           \o <<AI_step3_header>> \o historical_data.analysis
           \o <<AI_step4_header>> \o risk_data.analysis
           \o <<AI_step5_header>> \o recommendation_data.analysis)

\* buy_count / sell_count / hold_count after one more recommendation
AI_count(counts, recommendation) ==
    IF recommendation = "BUY" THEN [counts EXCEPT !.buy_count = @ + 1]
    ELSE IF recommendation = "SELL" THEN [counts EXCEPT !.sell_count = @ + 1]
    ELSE [counts EXCEPT !.hold_count = @ + 1]

-----------------------------------------------------------------------------
(* ai_trading_system.py: the filters of a batch run                         *)

\* get_current_active_markets keeps the event (lines 57-70).  A comparison
\* that raises TypeError is swallowed by the bare except and keeps it.
AI_event_is_current(ev) ==
    LET end_date == ev.endDate
        end_dt == ReplaceZ(end_date)
    IN IF Truthy(end_date)
       THEN IF IsoParses(end_dt) /\ ~MixRaises(end_dt) THEN end_dt.t > 0 ELSE TRUE
       ELSE TRUE

\* run_trading_analysis: float() in the activity filter raises (lines 460-461)
AI_filter_raises(mk) == FloatRaises(mk.liquidity) \/ FloatRaises(mk.volume)

\* Volume above which a market without liquidity still counts as active
AI_min_volume == 1000

\* Faulty variant of AI_has_activity: liquidity >= 0 instead of > 0
AI_has_activity_nonnegative(mk) ==
    FloatOf(mk.liquidity) >= 0 \/ FloatOf(mk.volume) > AI_min_volume

\* Faulty variant of AI_has_activity: the volume alternative is forgotten
AI_has_activity_liquidity_only(mk) == FloatOf(mk.liquidity) > 0

\* liquidity > 0 or volume > 1000
AI_has_activity(mk) ==
    FloatOf(mk.liquidity) > 0 \/ FloatOf(mk.volume) > AI_min_volume

\* active_markets[:15]
AI_analyze_limit == 15

-----------------------------------------------------------------------------
(* enhanced_market_analyzer.py                                              *)

\* get_markets_from_events: the event's fields are copied onto the market.
\* event.get('endDate') is None when the key is absent.
Enh_attach_event(ev, mk) ==
    [id |-> mk.id, question |-> mk.question, volume |-> mk.volume,
     liquidity |-> mk.liquidity, endDate |-> mk.endDate,
     event_id |-> ev.id, event_category |-> ev.category,
     event_end_date |-> ev.endDate]

\* Faulty variant of Enh_volume_component: the band above 20000 is worth
\* less than the band below it
Enh_volume_component_dip(volume) ==
    IF volume > 50000 THEN Pct(60)
    ELSE IF volume > 20000 THEN Pct(20)
    ELSE IF volume > 10000 THEN Pct(30)
    ELSE IF volume > 5000 THEN Pct(20)
    ELSE IF volume > 1000 THEN Pct(10)
    ELSE 0

Enh_volume_component(volume) ==
    IF volume > 50000 THEN Pct(60)
    ELSE IF volume > 20000 THEN Pct(40)
    ELSE IF volume > 10000 THEN Pct(30)
    ELSE IF volume > 5000 THEN Pct(20)
    ELSE IF volume > 1000 THEN Pct(10)
    ELSE 0

Enh_liquidity_component(liquidity) ==
    IF liquidity > 10000 THEN Pct(40)
    ELSE IF liquidity > 5000 THEN Pct(30)
    ELSE IF liquidity > 2000 THEN Pct(20)
    ELSE IF liquidity > 1000 THEN Pct(10)
    ELSE IF liquidity > 100 THEN Pct(5)
    ELSE 0

Enh_calculate_hype_score(mk) ==
    Min(Enh_volume_component(FloatOf(mk.volume))
        + Enh_liquidity_component(FloatOf(mk.liquidity)), Scale)

Simple_volume_component(volume) ==
    IF volume > 10000 THEN Pct(60)
    ELSE IF volume > 5000 THEN Pct(40)
    ELSE IF volume > 1000 THEN Pct(20)
    ELSE IF volume > 100 THEN Pct(10)
    ELSE 0

Simple_liquidity_component(liquidity) ==
    IF liquidity > 5000 THEN Pct(40)
    ELSE IF liquidity > 1000 THEN Pct(30)
    ELSE IF liquidity > 500 THEN Pct(20)
    ELSE IF liquidity > 100 THEN Pct(10)
    ELSE 0

Simple_calculate_simple_hype_score(mk) ==
    Min(Simple_volume_component(FloatOf(mk.volume))
        + Simple_liquidity_component(FloatOf(mk.liquidity)), Scale)

\* `if end_dt < current_date: continue`, inside try / bare except
Hype_is_expired(end_date) ==
    LET end_dt == ReplaceZ(end_date)
    IN Truthy(end_date) /\ IsoParses(end_dt) /\ ~MixRaises(end_dt) /\ end_dt.t < 0

\* Days within which a market earns the urgency bonus
Hype_urgency_days == 7

\* `if days_left <= 7: score += 0.2`, inside try / bare except
Hype_urgency_bonus(end_date) ==
    LET end_dt == ReplaceZ(end_date)
    IN IF Truthy(end_date) /\ IsoParses(end_dt) /\ ~MixRaises(end_dt)
          /\ DaysOf(end_dt) <= Hype_urgency_days
       THEN Pct(20)
       ELSE 0

\* Faulty variant of Hype_stored: the cap at 1.0 is forgotten
Hype_stored_unclamped(score) == score

\* min(score, 1.0) as stored in market['hype_score']
Hype_stored(score) == Min(score, Scale)

\* Faulty variant of Hype_selected: a score of exactly 0.1 is selected too
Hype_selected_at_threshold(score) == score >= Pct(10)

\* score > 0.1
Hype_selected(score) == score > Pct(10)

\* One iteration of the filter loop of get_current_markets / get_hype_markets
\* on a market whose end date is end_date and whose base score is base.
Hype_filter(mk, end_date, base) ==
    IF Hype_is_expired(end_date) THEN [outcome |-> "expired", hype_score |-> 0]
    ELSE IF FloatRaises(mk.liquidity) THEN [outcome |-> "raised", hype_score |-> 0]
    ELSE IF FloatOf(mk.liquidity) <= 0 THEN [outcome |-> "no_liquidity", hype_score |-> 0]
    ELSE IF FloatRaises(mk.volume) THEN [outcome |-> "raised", hype_score |-> 0]
    ELSE LET score == base + Hype_urgency_bonus(end_date)
         IN IF Hype_selected(score)
            THEN [outcome |-> "kept", hype_score |-> Hype_stored(score)]
            ELSE [outcome |-> "low_score", hype_score |-> 0]

Enh_filter_market(mk) ==
    Hype_filter(mk, mk.event_end_date, Enh_calculate_hype_score(mk))

Simple_filter_market(mk) ==
    Hype_filter(mk, mk.endDate, Simple_calculate_simple_hype_score(mk))

\* hype_markets[:5]
TopK == 5

-----------------------------------------------------------------------------
(* enhanced_market_analyzer.py / simple_market_analyzer.py: research_market *)

Enh_reddit_positive ==
    <<"growth", "bullish", "positive", "up", "rise", "gain", "recovery", "boom">>
Enh_reddit_negative ==
    <<"recession", "crash", "bearish", "negative", "down", "fall", "decline", "bust">>
Enh_news_positive ==
    <<"win", "success", "positive", "up", "rise", "gain", "beat", "victory">>
Enh_news_negative ==
    <<"lose", "fail", "negative", "down", "fall", "loss", "defeat", "crisis">>
Enh_web_positive == <<"optimistic", "strong", "increase", "improve", "better", "win">>
Enh_web_negative == <<"pessimistic", "weak", "decrease", "worse", "decline", "lose">>

Simple_reddit_positive ==
    <<"growth", "bullish", "positive", "up", "rise", "gain", "recovery">>
Simple_reddit_negative ==
    <<"recession", "crash", "bearish", "negative", "down", "fall", "decline">>
Simple_news_positive == <<"win", "success", "positive", "up", "rise", "gain", "beat">>
Simple_news_negative == <<"lose", "fail", "negative", "down", "fall", "loss", "defeat">>
Simple_web_positive == <<"win", "success", "positive", "up", "rise", "gain">>
Simple_web_negative == <<"lose", "fail", "negative", "down", "fall", "loss">>

Enh_get_reddit_sentiment(query) ==
    KeywordScore(Count(Enh_reddit_positive, query), Count(Enh_reddit_negative, query))
Enh_get_news_sentiment(query) ==
    KeywordScore(Count(Enh_news_positive, query), Count(Enh_news_negative, query))
Enh_get_web_sentiment(query) ==
    KeywordScore(Count(Enh_web_positive, query), Count(Enh_web_negative, query))

Simple_get_reddit_sentiment(query) ==
    KeywordScore(Count(Simple_reddit_positive, query), Count(Simple_reddit_negative, query))
Simple_get_news_sentiment(query) ==
    KeywordScore(Count(Simple_news_positive, query), Count(Simple_news_negative, query))
Simple_get_web_sentiment(query) ==
    KeywordScore(Count(Simple_web_positive, query), Count(Simple_web_negative, query))

\* Faulty variant of CountAbove: a sentiment equal to the threshold counts
CountAbove_inclusive(sentiments, threshold) ==
    Cardinality({i \in DOMAIN sentiments : sentiments[i] >= threshold})

\* sum(1 for s in sentiments if s > threshold)
CountAbove(sentiments, threshold) ==
    Cardinality({i \in DOMAIN sentiments : sentiments[i] > threshold})

\* sum(1 for s in sentiments if s < threshold)
CountBelow(sentiments, threshold) ==
    Cardinality({i \in DOMAIN sentiments : sentiments[i] < threshold})

\* The decision of research_market from the three sentiments
Research_decide(mk, sentiments, pos_threshold, neg_threshold) ==
    LET positive_count == CountAbove(sentiments, pos_threshold)
        negative_count == CountBelow(sentiments, neg_threshold)
    IN [market_id |-> mk.id, question |-> mk.question,
        reddit_sentiment |-> sentiments[1],
        news_sentiment |-> sentiments[2],
        web_sentiment |-> sentiments[3],
        confidence_score |-> IF positive_count >= 2 THEN Pct(70)
                             ELSE IF negative_count >= 2 THEN Pct(30)
                             ELSE Pct(50),
        recommendation |-> IF positive_count >= 2 THEN "BUY"
                           ELSE IF negative_count >= 2 THEN "SELL"
                           ELSE "HOLD"]

Enh_research_market(mk) ==
    Research_decide(mk,
                    <<Enh_get_reddit_sentiment(mk.question),
                      Enh_get_news_sentiment(mk.question),
                      Enh_get_web_sentiment(mk.question)>>,
                    Pct(60), Pct(40))

Simple_research_market(mk) ==
    Research_decide(mk,
                    <<Simple_get_reddit_sentiment(mk.question),
                      Simple_get_news_sentiment(mk.question),
                      Simple_get_web_sentiment(mk.question)>>,
                    Pct(50), Pct(30))

-----------------------------------------------------------------------------
(* Sorting and slicing                                                      *)

\* Faulty variant of Take: the slice keeps the whole sequence
Take_unbounded(seq, n) == seq

\* seq[:n]
Take(seq, n) == SubSeq(seq, 1, Min(n, Len(seq)))

\* Position of markets[i] after a stable sort by descending hype_score:
\* behind every element with a larger score and every earlier element with
\* the same score (list.sort is stable, also with reverse=True)
SortedPosition(markets, i) ==
    Cardinality({j \in DOMAIN markets :
                    \/ markets[j].hype_score > markets[i].hype_score
                    \/ markets[j].hype_score = markets[i].hype_score /\ j < i}) + 1

\* markets.sort(key=lambda x: x['hype_score'], reverse=True)
SortByHype(markets) ==
    [k \in DOMAIN markets |->
        markets[CHOOSE i \in DOMAIN markets : SortedPosition(markets, i) = k]]

\* Faulty variant of Hype_top_markets: the sort is forgotten
Hype_top_markets_unsorted(markets) == Take(markets, TopK)

\* The top markets get_current_markets / get_hype_markets return
Hype_top_markets(markets) == Take(SortByHype(markets), TopK)

\* Faulty variant of Enh_print_raises: an empty selection raises as well
Enh_print_raises_on_empty(top_markets) ==
    \/ top_markets = <<>>
    \/ \E i \in DOMAIN top_markets :
           top_markets[i].market.event_end_date.kind = "missing"

\* get_current_markets prints market.get('event_end_date', 'N/A')[:19] for
\* every selected market: subscripting None raises TypeError
Enh_print_raises(top_markets) ==
    \E i \in DOMAIN top_markets : top_markets[i].market.event_end_date.kind = "missing"

-----------------------------------------------------------------------------
(* Inputs of the single-market specification                                *)

\* An instant d whole days and a fraction of a day from now
AtDays(d) == d * TicksPerDay + 1

Volumes ==
    {NumMissing, NumBad, Num(0), Num(101), Num(1000), Num(1001), Num(5001),
     Num(10001), Num(20001), Num(50001), Num(100000), Num(120000)}

Liquidities ==
    {NumMissing, NumBad, Num(0), Num(100), Num(101), Num(501), Num(1000),
     Num(1001), Num(2001), Num(5001), Num(15000)}

EndStamps ==
    {StampMissing, StampGarbage,
     Stamp("naive", -AtDays(2)), Stamp("naive", 0), Stamp("naive", AtDays(1)),
     Stamp("naive", AtDays(3)), Stamp("naive", AtDays(7)),
     Stamp("naive", AtDays(30)), Stamp("naive", AtDays(45)),
     Stamp("zulu", AtDays(45)), Stamp("zulu", -AtDays(2)),
     Stamp("zulu", AtDays(3))}

Categories == {"", "Sports", "science"}

Questions ==
    {{"election"},
     {"Growth", "RECOVERY"},
     {"Growth", "recovery", "trending"},
     {"recession", "scandal"},
     {"win", "lose"},
     {"rate cuts", "crash"},
     {"Growth", "lose"},
     {"support"}}

Variants == {"ai", "enhanced", "simple"}

NoData == [recommendation |-> "NONE"]
NoParts == [outcome |-> "none", hype_score |-> 0]
NoResult == [success |-> FALSE, error |-> "none"]

-----------------------------------------------------------------------------
(* Single-market specification: one call of analyze_market_for_trading      *)
(* (ai), or one iteration of the selection loop followed by research_market *)
(* (enhanced, simple).                                                      *)

Init ==
    /\ variant \in Variants
    /\ pc = "start"
    /\ \E c \in Categories, e \in EndStamps :
           event = [id |-> "e1", category |-> c, endDate |-> e]
    /\ \E q \in Questions, v \in Volumes, l \in Liquidities :
           market = [id |-> "m1", question |-> q, volume |-> v, liquidity |-> l,
                     endDate |-> event.endDate]
    /\ chain_of_thought = <<>>
    /\ analysis_data = NoData
    /\ parts = NoParts
    /\ active_markets = <<>>
    /\ recommendations = <<>>
    /\ supplied = 0
    /\ result = NoResult

BatchUnchanged == UNCHANGED <<active_markets, recommendations, supplied, result>>

\* STEP 1 (lines 100-139); float() may raise
AI_Step1 ==
    /\ variant = "ai" /\ pc = "start"
    /\ IF AI_analysis_raises(market)
       THEN /\ pc' = "raised"
            /\ UNCHANGED <<chain_of_thought, analysis_data, parts>>
       ELSE /\ pc' = "step2"
            /\ parts' = AI_step1_values(market)
            /\ chain_of_thought' = AI_step1_lines(parts')
            /\ analysis_data' = AI_initial_analysis_data(event, market)
    /\ UNCHANGED <<variant, event, market>>
    /\ BatchUnchanged

\* STEP 2 (lines 141-146)
AI_Step2 ==
    /\ variant = "ai" /\ pc = "step2"
    /\ pc' = "step3"
    /\ LET sentiment_data == AI_analyze_market_sentiment(market.question)
       IN /\ chain_of_thought' =
                 chain_of_thought \o <<AI_step2_header>> \o sentiment_data.analysis
          /\ analysis_data' =
                 [analysis_data EXCEPT !.data_sources = @ \o sentiment_data.sources]
          /\ parts' = [sentiment_score |-> sentiment_data.score] @@ parts
    /\ UNCHANGED <<variant, event, market>>
    /\ BatchUnchanged

\* STEP 3 (lines 148-153)
AI_Step3 ==
    /\ variant = "ai" /\ pc = "step3"
    /\ pc' = "step4"
    /\ LET historical_data == AI_analyze_historical_performance(event, market)
       IN /\ chain_of_thought' =
                 chain_of_thought \o <<AI_step3_header>> \o historical_data.analysis
          /\ analysis_data' =
                 [analysis_data EXCEPT !.data_sources = @ \o historical_data.sources]
          /\ parts' = [historical_score |-> historical_data.score] @@ parts
    /\ UNCHANGED <<variant, event, market>>
    /\ BatchUnchanged

\* STEP 4 (lines 155-159)
AI_Step4 ==
    /\ variant = "ai" /\ pc = "step4"
    /\ pc' = "step5"
    /\ LET risk_data == AI_assess_trading_risk(market, parts.days_until_end)
       IN /\ chain_of_thought' =
                 chain_of_thought \o <<AI_step4_header>> \o risk_data.analysis
          /\ parts' = [risk_score |-> risk_data.score] @@ parts
    /\ UNCHANGED <<variant, event, market, analysis_data>>
    /\ BatchUnchanged

\* STEP 5 and the final update (lines 161-184)
AI_Step5 ==
    /\ variant = "ai" /\ pc = "step5"
    /\ pc' = "done"
    /\ LET recommendation_data ==
               AI_generate_recommendation(parts.volume, parts.liquidity,
                                          parts.days_until_end, parts.sentiment_score,
                                          parts.historical_score, parts.risk_score)
       IN /\ chain_of_thought' =
                 chain_of_thought \o <<AI_step5_header>> \o recommendation_data.analysis
          /\ analysis_data' =
                 AI_with_chain(
                     AI_updated_analysis_data(analysis_data, parts, recommendation_data,
                                              parts.sentiment_score, parts.historical_score,
                                              parts.risk_score),
                     chain_of_thought')
    /\ UNCHANGED <<variant, event, market, parts>>
    /\ BatchUnchanged

\* get_markets_from_events on the one market (enhanced)
Enh_Extract ==
    /\ variant = "enhanced" /\ pc = "start"
    /\ pc' = "filter"
    /\ market' = Enh_attach_event(event, market)
    /\ UNCHANGED <<variant, event, chain_of_thought, analysis_data, parts>>
    /\ BatchUnchanged

\* One iteration of the loop of get_current_markets (lines 123-154)
Enh_Filter ==
    /\ variant = "enhanced" /\ pc = "filter"
    /\ parts' = Enh_filter_market(market)
    /\ pc' = IF parts'.outcome = "kept" THEN "kept"
             ELSE IF parts'.outcome = "raised" THEN "raised"
             ELSE "skipped"
    /\ UNCHANGED <<variant, event, market, chain_of_thought, analysis_data>>
    /\ BatchUnchanged

\* research_market (enhanced)
Enh_Research ==
    /\ variant = "enhanced" /\ pc = "kept"
    /\ pc' = "done"
    /\ analysis_data' = Enh_research_market(market)
    /\ UNCHANGED <<variant, event, market, chain_of_thought, parts>>
    /\ BatchUnchanged

\* One iteration of the loop of get_hype_markets (lines 70-100)
Simple_Filter ==
    /\ variant = "simple" /\ pc = "start"
    /\ parts' = Simple_filter_market(market)
    /\ pc' = IF parts'.outcome = "kept" THEN "kept"
             ELSE IF parts'.outcome = "raised" THEN "raised"
             ELSE "skipped"
    /\ UNCHANGED <<variant, event, market, chain_of_thought, analysis_data>>
    /\ BatchUnchanged

\* research_market (simple)
Simple_Research ==
    /\ variant = "simple" /\ pc = "kept"
    /\ pc' = "done"
    /\ analysis_data' = Simple_research_market(market)
    /\ UNCHANGED <<variant, event, market, chain_of_thought, parts>>
    /\ BatchUnchanged

Next ==
    \/ AI_Step1
    \/ AI_Step2
    \/ AI_Step3
    \/ AI_Step4
    \/ AI_Step5
    \/ Enh_Extract
    \/ Enh_Filter
    \/ Enh_Research
    \/ Simple_Filter
    \/ Simple_Research

Spec == Init /\ [][Next]_vars

-----------------------------------------------------------------------------
(* Inputs of the batch specification                                        *)
(* The input records, each a market with its parent event.  The filter      *)
(* loops draw the next record from this set, any number of times.           *)

BatchRecord(id, question, category, event_end, market_end, volume, liquidity) ==
    [event |-> [id |-> "e" \o id, category |-> category, endDate |-> event_end],
     market |-> [id |-> id, question |-> question, volume |-> volume,
                 liquidity |-> liquidity, endDate |-> market_end]]

BatchRecords ==
    {\* active, ends in 45 days
     BatchRecord("A", {"Growth", "recovery"}, "Sports",
                 Stamp("naive", AtDays(45)), Stamp("naive", AtDays(45)),
                 Num(120000), Num(15000)),
     \* ended two days ago, timestamp with a trailing Z
     BatchRecord("B", {"recession", "scandal"}, "",
                 Stamp("zulu", -AtDays(2)), Stamp("zulu", -AtDays(2)),
                 Num(2000), Num(500)),
     \* no end date
     BatchRecord("C", {"election"}, "science",
                 StampMissing, StampMissing, Num(60000), Num(1500)),
     \* no liquidity but volume, ends in 3 days
     BatchRecord("D", {"win", "support"}, "",
                 Stamp("naive", AtDays(3)), Stamp("naive", AtDays(3)),
                 Num(5000), Num(0)),
     \* ended two days ago, timestamp without offset
     BatchRecord("F", {"election"}, "",
                 Stamp("naive", -AtDays(2)), Stamp("naive", -AtDays(2)),
                 Num(60000), Num(1500)),
     \* no liquidity and little volume
     BatchRecord("G", {"election"}, "",
                 Stamp("naive", AtDays(45)), Stamp("naive", AtDays(45)),
                 Num(1000), NumMissing),
     \* liquidity that is not a number
     BatchRecord("H", {"election"}, "",
                 Stamp("naive", AtDays(45)), Stamp("naive", AtDays(45)),
                 Num(60000), NumBad),
     \* unparseable end date, little activity
     BatchRecord("I", {"election"}, "",
                 StampGarbage, StampGarbage, Num(500), Num(0)),
     \* a little liquidity and no volume
     BatchRecord("J", {"election"}, "",
                 Stamp("naive", AtDays(45)), Stamp("naive", AtDays(45)),
                 Num(0), Num(101))}

\* Largest number of markets a modelled filter loop keeps
MaxBatch == 6

\* Largest number of markets the filter loop of run_trading_analysis keeps
\* when every record may follow every other
MaxAIBatch == 4

\* Largest number of markets the filter loop of run_trading_analysis keeps
\* along the one family of long batches that is followed
MaxLongBatch == 17

\* The batches run_trading_analysis is followed on: every batch of at most
\* MaxAIBatch kept markets, and beyond that the batches that repeat market A
\* and may end with market C
AI_batch_in_bounds(kept, r) ==
    \/ Len(kept) < MaxAIBatch
    \/ /\ Len(kept) < MaxLongBatch
       /\ r.market.id \in {"A", "C"}
       /\ \A i \in DOMAIN kept : kept[i].market.id = "A"

NoMarket == [id |-> "none"]

\* An exception that propagates out of the run
Raised(name) == [success |-> FALSE, error |-> name, raised |-> TRUE]

-----------------------------------------------------------------------------
(* Batch specification: run_trading_analysis (ai) and run_complete_analysis *)
(* (enhanced, simple)                                                       *)

InitBatch ==
    /\ variant \in Variants
    /\ pc = "start"
    /\ event = NoMarket
    /\ market = NoMarket
    /\ chain_of_thought = <<>>
    /\ analysis_data = NoData
    /\ parts = NoParts
    /\ active_markets = <<>>
    /\ recommendations = <<>>
    /\ supplied = 0
    /\ result = NoResult

SingleUnchanged == UNCHANGED <<chain_of_thought, analysis_data>>

\* The HTTP request fails: get_current_active_markets reports it and
\* run_trading_analysis returns the failure (lines 81-87, 442-447)
AI_FetchFails ==
    /\ variant = "ai" /\ pc = "start"
    /\ pc' = "done"
    /\ result' = ([success |-> FALSE, raised |-> FALSE,
                           error |-> "Failed to fetch markets",
                           recommendations |-> <<>>])
    /\ UNCHANGED <<variant, event, market, parts, active_markets, recommendations, supplied>>
    /\ SingleUnchanged

\* The events arrive
AI_FetchOk ==
    /\ variant = "ai" /\ pc = "start"
    /\ pc' = "filter"
    /\ UNCHANGED <<variant, event, market, parts, active_markets, recommendations,
                   supplied, result>>
    /\ SingleUnchanged

\* The filters on the next record: the event filter of
\* get_current_active_markets (lines 57-70), then the activity filter of
\* run_trading_analysis (lines 456-465)
AI_FilterMarket ==
    /\ variant = "ai" /\ pc = "filter"
    /\ \E r \in BatchRecords :
        /\ AI_batch_in_bounds(active_markets, r)
        /\ event' = r.event
        /\ market' = r.market
        /\ IF ~AI_event_is_current(r.event)
           THEN /\ parts' = [outcome |-> "expired", hype_score |-> 0]
                /\ UNCHANGED <<pc, active_markets, result>>
           ELSE IF AI_filter_raises(r.market)
           THEN /\ parts' = [outcome |-> "raised", hype_score |-> 0]
                /\ pc' = "raised"
                /\ result' = Raised("ValueError: could not convert string to float")
                /\ UNCHANGED active_markets
           ELSE IF AI_has_activity(r.market)
           THEN /\ parts' = [outcome |-> "kept", hype_score |-> 0]
                /\ active_markets' = Append(active_markets, r)
                /\ UNCHANGED <<pc, result>>
           ELSE /\ parts' = [outcome |-> "no_activity", hype_score |-> 0]
                /\ UNCHANGED <<pc, active_markets, result>>
    /\ UNCHANGED <<variant, recommendations, supplied>>
    /\ SingleUnchanged

\* The filter loops end; the analysis loop starts with its counters at 0
AI_FilterDone ==
    /\ variant = "ai" /\ pc = "filter"
    /\ pc' = "analyze"
    /\ event' = NoMarket
    /\ market' = NoMarket
    /\ parts' = [buy_count |-> 0, sell_count |-> 0, hold_count |-> 0]
    /\ supplied' = Len(active_markets)
    /\ UNCHANGED <<variant, active_markets, recommendations, result>>
    /\ SingleUnchanged

\* One iteration of `for event, market in active_markets[:15]` (lines 475-484)
AI_AnalyzeNext ==
    /\ variant = "ai" /\ pc = "analyze"
    /\ Len(recommendations) < Len(Take(active_markets, AI_analyze_limit))
    /\ LET r == active_markets[Len(recommendations) + 1]
       IN recommendations' =
              Append(recommendations, AI_analyze_market_for_trading(r.event, r.market))
    /\ parts' = AI_count(parts, recommendations'[Len(recommendations')].recommendation)
    /\ UNCHANGED <<variant, pc, event, market, active_markets, supplied, result>>
    /\ SingleUnchanged

\* The summary run_trading_analysis returns (lines 528-536)
AI_Finish ==
    /\ variant = "ai" /\ pc = "analyze"
    /\ Len(recommendations) = Len(Take(active_markets, AI_analyze_limit))
    /\ pc' = "done"
    /\ result' = ([success |-> TRUE, raised |-> FALSE, error |-> "",
                           total_analyzed |-> Len(recommendations),
                           buy_recommendations |-> parts.buy_count,
                           sell_recommendations |-> parts.sell_count,
                           hold_recommendations |-> parts.hold_count,
                           recommendations |-> recommendations])
    /\ UNCHANGED <<variant, event, market, parts, active_markets, recommendations, supplied>>
    /\ SingleUnchanged

\* get_events fails (enhanced) or get_markets fails (simple): the selection
\* returns [] and run_complete_analysis reports that no market was found
Hype_FetchFails ==
    /\ variant \in {"enhanced", "simple"} /\ pc = "start"
    /\ pc' = "done"
    /\ result' = [success |-> FALSE, raised |-> FALSE,
                  error |-> IF variant = "enhanced" THEN "No active markets found"
                            ELSE "No hype markets found",
                  results |-> <<>>]
    /\ UNCHANGED <<variant, event, market, parts, active_markets, recommendations, supplied>>
    /\ SingleUnchanged

\* The markets arrive
Hype_FetchOk ==
    /\ variant \in {"enhanced", "simple"} /\ pc = "start"
    /\ pc' = "filter"
    /\ UNCHANGED <<variant, event, market, parts, active_markets, recommendations,
                   supplied, result>>
    /\ SingleUnchanged

\* One iteration of the selection loop of get_current_markets (enhanced,
\* lines 123-154, on a market get_markets_from_events prepared) or of
\* get_hype_markets (simple, lines 70-100)
Hype_FilterMarket ==
    /\ variant \in {"enhanced", "simple"} /\ pc = "filter"
    /\ Len(active_markets) < MaxBatch
    /\ \E r \in BatchRecords :
        LET mk == IF variant = "enhanced" THEN Enh_attach_event(r.event, r.market)
                  ELSE r.market
            f == IF variant = "enhanced" THEN Enh_filter_market(mk)
                 ELSE Simple_filter_market(mk)
        IN /\ event' = r.event
           /\ market' = mk
           /\ parts' = f
           /\ IF f.outcome = "raised"
              THEN /\ pc' = "raised"
                   /\ result' = Raised("ValueError: could not convert string to float")
                   /\ UNCHANGED active_markets
              ELSE IF f.outcome = "kept"
              THEN /\ active_markets' =
                          Append(active_markets, [market |-> mk, hype_score |-> f.hype_score])
                   /\ UNCHANGED <<pc, result>>
              ELSE UNCHANGED <<pc, active_markets, result>>
    /\ UNCHANGED <<variant, recommendations, supplied>>
    /\ SingleUnchanged

\* The loop ends: sort by hype score, keep the top markets, print them and
\* return them (enhanced lines 156-169, simple lines 102-112); then
\* run_complete_analysis stops when none is left
Hype_Select ==
    /\ variant \in {"enhanced", "simple"} /\ pc = "filter"
    /\ event' = NoMarket
    /\ market' = NoMarket
    /\ parts' = NoParts
    /\ supplied' = Len(active_markets)
    /\ LET top_markets == Hype_top_markets(active_markets)
       IN IF variant = "enhanced" /\ Enh_print_raises(top_markets)
          THEN /\ pc' = "raised"
               /\ result' = Raised("TypeError: 'NoneType' object is not subscriptable")
               /\ UNCHANGED active_markets
          ELSE IF top_markets = <<>>
          THEN /\ pc' = "done"
               /\ result' = [success |-> FALSE, raised |-> FALSE,
                             error |-> IF variant = "enhanced"
                                       THEN "No active markets found"
                                       ELSE "No hype markets found",
                             results |-> <<>>]
               /\ UNCHANGED active_markets
          ELSE /\ pc' = "research"
               /\ active_markets' = top_markets
               /\ UNCHANGED result
    /\ UNCHANGED <<variant, recommendations>>
    /\ SingleUnchanged

\* One iteration of the research loop of run_complete_analysis
Hype_ResearchNext ==
    /\ variant \in {"enhanced", "simple"} /\ pc = "research"
    /\ Len(recommendations) < Len(active_markets)
    /\ LET mk == active_markets[Len(recommendations) + 1].market
       IN recommendations' =
              Append(recommendations,
                     IF variant = "enhanced" THEN Enh_research_market(mk)
                     ELSE Simple_research_market(mk))
    /\ UNCHANGED <<variant, pc, event, market, parts, active_markets, supplied, result>>
    /\ SingleUnchanged

\* len([r for r in research_results if r['recommendation'] == which])
CountRecommendation(results, which) ==
    Cardinality({i \in DOMAIN results : results[i].recommendation = which})

\* The summary run_complete_analysis returns
Hype_Finish ==
    /\ variant \in {"enhanced", "simple"} /\ pc = "research"
    /\ Len(recommendations) = Len(active_markets)
    /\ pc' = "done"
    /\ result' = [success |-> TRUE, raised |-> FALSE, error |-> "",
                  current_markets |-> active_markets,
                  research_results |-> recommendations,
                  total_analyzed |-> Len(recommendations),
                  buy_recommendations |-> CountRecommendation(recommendations, "BUY"),
                  sell_recommendations |-> CountRecommendation(recommendations, "SELL")]
    /\ UNCHANGED <<variant, event, market, parts, active_markets, recommendations, supplied>>
    /\ SingleUnchanged

NextBatch ==
    \/ AI_FetchFails
    \/ AI_FetchOk
    \/ AI_FilterMarket
    \/ AI_FilterDone
    \/ AI_AnalyzeNext
    \/ AI_Finish
    \/ Hype_FetchFails
    \/ Hype_FetchOk
    \/ Hype_FilterMarket
    \/ Hype_Select
    \/ Hype_ResearchNext
    \/ Hype_Finish

SpecBatch == InitBatch /\ [][NextBatch]_vars

-----------------------------------------------------------------------------
(* Combiner specification: _generate_recommendation applied to signal       *)
(* scores drawn from a grid of [0, 1]                                       *)

\* 0.00, 0.05, ..., 1.00
SentimentGrid == {Pct(5 * k) : k \in 0..20}

\* 0.0, 0.1, ..., 1.0
BandGrid == {Pct(10 * k) : k \in 0..10}

InitCombiner ==
    /\ variant = "ai"
    /\ pc = "scores"
    /\ event = NoMarket
    /\ market = NoMarket
    /\ chain_of_thought = <<>>
    /\ analysis_data = NoData
    /\ \E s \in SentimentGrid, h \in BandGrid, r \in BandGrid :
           parts = [volume |-> 0, liquidity |-> 0, days_until_end |-> 0,
                    sentiment_score |-> s, historical_score |-> h, risk_score |-> r]
    /\ active_markets = <<>>
    /\ recommendations = <<>>
    /\ supplied = 0
    /\ result = NoResult

\* _generate_recommendation (lines 373-428)
AI_Combine ==
    /\ pc = "scores"
    /\ pc' = "combined"
    /\ LET recommendation_data ==
               AI_generate_recommendation(parts.volume, parts.liquidity,
                                          parts.days_until_end, parts.sentiment_score,
                                          parts.historical_score, parts.risk_score)
       IN /\ analysis_data' = [recommendation |-> recommendation_data.recommendation,
                               confidence |-> recommendation_data.confidence,
                               reasoning |-> recommendation_data.reasoning]
          /\ chain_of_thought' = recommendation_data.analysis
    /\ UNCHANGED <<variant, event, market, parts>>
    /\ BatchUnchanged

NextCombiner == AI_Combine

SpecCombiner == InitCombiner /\ [][NextCombiner]_vars

-----------------------------------------------------------------------------
(* Properties                                                               *)

InUnitInterval(x) == 0 <= x /\ x <= Scale

HypeVariants == {"enhanced", "simple"}

\* C1: every signal score the scorers produce -- the sentiment, historical
\* and risk scores of analyze_market_for_trading, the stored hype score of
\* the selection loops and the sentiments of research_market -- lies in
\* [0.0, 1.0].
C1_ScoresInUnitInterval ==
    /\ variant = "ai" /\ pc = "done" =>
          /\ InUnitInterval(analysis_data.sentiment_score)
          /\ InUnitInterval(analysis_data.historical_score)
          /\ InUnitInterval(analysis_data.risk_score)
    /\ variant \in HypeVariants /\ pc \in {"kept", "done"} =>
          InUnitInterval(parts.hype_score)
    /\ variant \in HypeVariants /\ pc = "done" =>
          /\ InUnitInterval(analysis_data.reddit_sentiment)
          /\ InUnitInterval(analysis_data.news_sentiment)
          /\ InUnitInterval(analysis_data.web_sentiment)

\* C1 witness: a kept market whose base hype score plus the urgency bonus
\* exceeds 1.0 and whose stored score is exactly 1.0.
C1_Witness ==
    /\ variant = "enhanced" /\ pc = "kept"
    /\ Enh_calculate_hype_score(market) + Hype_urgency_bonus(market.event_end_date) > Scale
    /\ parts.hype_score = Scale

\* 0.4 * sentiment + 0.3 * historical + 0.3 * risk of the scores in parts
WeightedOverall == (4 * parts.sentiment_score + 3 * parts.historical_score
                    + 3 * parts.risk_score) \div 10

\* C2: the combiner maps overall >= 0.55 to BUY with confidence = overall,
\* overall <= 0.45 to SELL with confidence = 1 - overall, and every other
\* overall score to HOLD with confidence exactly 0.5.
C2_DecisionBands ==
    pc = "combined" =>
        /\ WeightedOverall >= Pct(55) =>
              /\ analysis_data.recommendation = "BUY"
              /\ analysis_data.confidence = WeightedOverall
        /\ WeightedOverall <= Pct(45) =>
              /\ analysis_data.recommendation = "SELL"
              /\ analysis_data.confidence = Scale - WeightedOverall
        /\ WeightedOverall > Pct(45) /\ WeightedOverall < Pct(55) =>
              /\ analysis_data.recommendation = "HOLD"
              /\ analysis_data.confidence = Half

\* C2 witness: an overall score of exactly 0.58 resolved to BUY with
\* confidence 0.58.
C2_Witness ==
    /\ pc = "combined"
    /\ WeightedOverall = Pct(58)
    /\ analysis_data.recommendation = "BUY"
    /\ analysis_data.confidence = Pct(58)

\* The end timestamp the filter of the running script examines
FilterStamp(entry) ==
    IF variant = "ai" THEN entry.event.endDate
    ELSE IF variant = "enhanced" THEN entry.market.event_end_date
    ELSE entry.market.endDate

\* The timestamp names an instant that is not after the current time
HasEnded(ts) == ts.kind \in {"naive", "zulu", "offset"} /\ ts.t <= 0

\* C3: no market whose end timestamp is present and not strictly after the
\* current time is kept by the filter (and so none is scored or returned).
C3_NoEndedMarketKept ==
    \A i \in DOMAIN active_markets : ~HasEnded(FilterStamp(active_markets[i]))

\* The market has no liquidity and at most 1000 of volume
IsInactive(mk) == FloatOf(mk.liquidity) = 0 /\ FloatOf(mk.volume) <= 1000

\* C4: no market with liquidity == 0 and volume <= 1000 is kept by the
\* filter, scored or returned.
C4_InactiveMarketExcluded ==
    /\ \A i \in DOMAIN active_markets : ~IsInactive(active_markets[i].market)
    /\ variant = "ai" =>
          \A i \in DOMAIN recommendations :
              ~(recommendations[i].liquidity = 0 /\ recommendations[i].volume <= 1000)

\* The filter loop has just decided on `market`
Decided == pc \in {"filter", "raised"} /\ market # NoMarket

\* C4 witness: the filter has just dropped a market with no liquidity and
\* at most 1000 of volume that had not ended.
C4_Witness ==
    /\ Decided
    /\ IsInactive(market)
    /\ ~HasEnded(event.endDate)
    /\ parts.outcome \in {"no_activity", "no_liquidity"}

\* The market has no liquidity, volume above 1000, numeric fields float()
\* accepts, and neither it nor its event has ended
IsVolumeOnly(ev, mk) ==
    /\ ~FloatRaises(mk.liquidity) /\ ~FloatRaises(mk.volume)
    /\ FloatOf(mk.liquidity) = 0 /\ FloatOf(mk.volume) > 1000
    /\ ~HasEnded(ev.endDate) /\ ~HasEnded(mk.endDate)

\* C5 as stated: in every script a market that has not ended and has zero
\* liquidity but volume > 1000 passes the filter.
C5_VolumeOnlyMarketKept ==
    Decided /\ IsVolumeOnly(event, market) => parts.outcome = "kept"

\* C5 as amended: run_trading_analysis (ai) keeps such a market; the
\* selection loops of the enhanced and simple analyzers never keep a market
\* whose liquidity is not positive, whatever its volume.
C5_VolumeOnlyKeptByAiOnly ==
    /\ variant = "ai" /\ Decided /\ IsVolumeOnly(event, market) =>
          parts.outcome = "kept"
    /\ variant \in HypeVariants /\ Decided /\ ~FloatRaises(market.liquidity)
       /\ FloatOf(market.liquidity) <= 0 =>
          parts.outcome \in {"no_liquidity", "expired"}
    /\ variant \in HypeVariants =>
          \A i \in DOMAIN active_markets :
              FloatOf(active_markets[i].market.liquidity) > 0

\* C5 witness: run_trading_analysis has just kept a market with zero
\* liquidity and volume above 1000.
C5_Witness ==
    /\ variant = "ai" /\ Decided /\ IsVolumeOnly(event, market)
    /\ parts.outcome = "kept"
    /\ active_markets # <<>>
    /\ active_markets[Len(active_markets)].market = market

\* The question contains none of the negative keywords of the three channels
NoNegativeKeyword(question) ==
    /\ Count(AI_negative_current, question) = 0
    /\ Count(AI_negative_words, question) = 0
    /\ Count(AI_negative_econ, question) = 0
    /\ Count(AI_negative_social, question) = 0

\* The end-to-end scenario of C6 has been analysed
C6_Scenario ==
    /\ variant = "ai" /\ pc = "done"
    /\ analysis_data.volume = 120000
    /\ analysis_data.liquidity = 15000
    /\ analysis_data.days_until_end = 45
    /\ Contains(market.question, "growth")
    /\ Contains(market.question, "recovery")
    /\ NoNegativeKeyword(market.question)

\* 0.4 * sentiment + 0.3 * historical + 0.3 * risk of the analysed market
AnalysedOverall ==
    (4 * analysis_data.sentiment_score + 3 * analysis_data.historical_score
     + 3 * analysis_data.risk_score) \div 10

\* x is within 0.05 of n hundredths
Near(x, n) == x - Pct(n) <= Pct(5) /\ Pct(n) - x <= Pct(5)

\* C6 as stated: the scenario yields sentiment ~ 1.0, historical ~ 1.0,
\* risk ~ 0.9, overall ~ 0.97, BUY and confidence ~ 0.97.
C6_ScenarioAsStated ==
    C6_Scenario =>
        /\ Near(analysis_data.sentiment_score, 100)
        /\ Near(analysis_data.historical_score, 100)
        /\ Near(analysis_data.risk_score, 90)
        /\ Near(AnalysedOverall, 97)
        /\ analysis_data.recommendation = "BUY"
        /\ Near(analysis_data.confidence, 97)

\* C6 as amended: in the scenario the risk score is 0.8; the historical
\* score is 0.9, or 1.0 for a sports, politics or crypto event; the
\* sentiment is the mean of reddit 1.0, news 1.0 and the social sub-score
\* (0.5 without a social keyword, giving 0.83; 1.0 with one, giving 1.0);
\* the recommendation is BUY with confidence = overall, which is 0.84 for a
\* question without social keyword and an event outside those categories.
C6_ScenarioAmended ==
    C6_Scenario =>
        LET social == Count(AI_positive_social, market.question) > 0
            volatile == Lower(event.category) \in {"sports", "politics", "crypto"}
        IN /\ analysis_data.risk_score = Pct(80)
           /\ analysis_data.historical_score = (IF volatile THEN Scale ELSE Pct(90))
           /\ analysis_data.sentiment_score =
                  (IF social THEN Scale ELSE (Scale + Scale + Half) \div 3)
           /\ ~social => Hundredths(analysis_data.sentiment_score) = 83
           /\ analysis_data.recommendation = "BUY"
           /\ analysis_data.confidence = AnalysedOverall
           /\ ~social /\ ~volatile => Hundredths(analysis_data.confidence) = 84

\* C6 witness: the scenario analysed for a question with no social keyword
\* and an event without category, with confidence 0.84.
C6_Witness ==
    /\ C6_Scenario
    /\ event.category = ""
    /\ Count(AI_positive_social, market.question) = 0
    /\ Hundredths(analysis_data.confidence) = 84

\* hype scores do not increase along the sequence
SortedByHype(markets) ==
    \A i, j \in DOMAIN markets :
        i < j => markets[i].hype_score >= markets[j].hype_score

\* C7 as stated: a batch run never returns more than K = 5 markets, in
\* descending order of the hype score.
C7_AtMostKReturned ==
    pc = "done" /\ result.success =>
        /\ Len(recommendations) <= TopK
        /\ variant \in HypeVariants => SortedByHype(active_markets)

\* C7 as amended: the selections of the enhanced and simple analyzers return
\* at most 5 markets, in descending order of their stored hype score;
\* run_trading_analysis (ai) ranks nothing: it analyses the first markets
\* the filter kept, at most 15 of them, in input order.
C7_TopKOfHypeSelection ==
    /\ variant \in HypeVariants /\ pc \in {"research", "done"} =>
          /\ Len(active_markets) <= TopK
          /\ Len(recommendations) <= TopK
          /\ SortedByHype(active_markets)
    /\ variant = "ai" /\ pc \in {"analyze", "done"} =>
          /\ Len(recommendations) <= AI_analyze_limit
          /\ Len(recommendations) <= Len(active_markets)
          /\ \A i \in DOMAIN recommendations :
                 recommendations[i].market_id = active_markets[i].market.id

\* C7 witness: the selection loop kept more than 5 markets and 5 were
\* returned, the first with a larger hype score than the last.
C7_Witness ==
    /\ variant \in HypeVariants /\ pc = "research"
    /\ supplied > TopK
    /\ Len(active_markets) = TopK
    /\ active_markets[1].hype_score > active_markets[TopK].hype_score

\* C8: a market whose volume or liquidity is not a number never makes the
\* run raise: the run goes on past it.
C8_MalformedNumberNeverRaises ==
    market # NoMarket /\ (FloatRaises(market.volume) \/ FloatRaises(market.liquidity))
        => pc # "raised"

\* the run was aborted by the error that an absent end timestamp produces
RaisedOnTimestamp ==
    /\ pc = "raised"
    /\ result.error = "TypeError: 'NoneType' object is not subscriptable"

\* C9: a missing or malformed end timestamp never propagates as an error:
\* a run that kept a market without a usable end timestamp is never aborted
\* by an error that timestamp produces.
C9_BadTimestampNeverRaises ==
    (\E i \in DOMAIN active_markets :
         FilterStamp(active_markets[i]).kind \in {"missing", "empty", "garbage"})
        => ~RaisedOnTimestamp

\* C10: for every end timestamp that parses, a trailing Z included,
\* days_until_end is the floor of (end_time - now) in days; it is the
\* fallback 0 when the timestamp is absent or does not parse.
C10_DaysIsFloorOfDifference ==
    variant = "ai" /\ pc = "done" =>
        IF market.endDate.kind \in {"naive", "zulu", "offset"}
        THEN analysis_data.days_until_end = market.endDate.t \div TicksPerDay
        ELSE analysis_data.days_until_end = 0

\* the line is part of the reasoning trace built so far
InTrace(line) == \E i \in DOMAIN chain_of_thought : chain_of_thought[i] = line

\* the end timestamp is absent or does not parse
UnknownEnd(ts) == ts.kind \in {"missing", "empty", "garbage"}

\* C11: a market whose end timestamp is absent or unparseable is treated as
\* not urgent: the risk scorer does not apply its within-1-day penalty to
\* it, and the hype selection does not add its within-7-days bonus.
C11_UnknownEndNotUrgent ==
    UnknownEnd(market.endDate) =>
        /\ variant = "ai" /\ pc \in {"step5", "done"} =>
              /\ ~InTrace("    - Very high time risk (ends within 1 day)")
              /\ parts.risk_score >=
                     Clamp01(Half + AI_liquidity_risk_adjust(parts.liquidity))
        /\ variant = "enhanced" /\ pc = "kept" =>
              parts.hype_score = Hype_stored(Enh_calculate_hype_score(market))
        /\ variant = "simple" /\ pc = "kept" =>
              parts.hype_score = Hype_stored(Simple_calculate_simple_hype_score(market))

\* the reasoning sentence of a decision branch, for the combined overall score
ReasoningOf(branch) == branch \o " (score: " \o Fmt2(WeightedOverall) \o ")"

\* C12 as stated: the tighter threshold of each pair (>= 0.6, <= 0.4) is
\* never taken as a branch of its own, the looser one (>= 0.55, <= 0.45)
\* matching first, so a pair's branches cannot be told apart in the result.
C12_TighterBranchUnreachable ==
    pc = "combined" =>
        /\ WeightedOverall >= Pct(55) =>
              analysis_data.reasoning =
                  ReasoningOf("Positive signals with good confidence for current market")
        /\ WeightedOverall <= Pct(45) =>
              analysis_data.reasoning =
                  ReasoningOf("Negative signals with good confidence for current market")

\* C12 as amended: the tighter threshold of each pair is tested first and
\* both branches of a pair are taken; they give the same recommendation and
\* the same confidence formula, so the decision has two effective bands,
\* but the reasoning sentence tells the four branches apart.
C12_FourBranchesTwoDecisions ==
    pc = "combined" =>
        /\ WeightedOverall >= Pct(60) =>
              /\ analysis_data.recommendation = "BUY"
              /\ analysis_data.confidence = WeightedOverall
              /\ analysis_data.reasoning =
                     ReasoningOf("Strong positive signals for current market")
        /\ WeightedOverall >= Pct(55) /\ WeightedOverall < Pct(60) =>
              /\ analysis_data.recommendation = "BUY"
              /\ analysis_data.confidence = WeightedOverall
              /\ analysis_data.reasoning =
                     ReasoningOf("Positive signals with good confidence for current market")
        /\ WeightedOverall <= Pct(40) =>
              /\ analysis_data.recommendation = "SELL"
              /\ analysis_data.confidence = Scale - WeightedOverall
              /\ analysis_data.reasoning =
                     ReasoningOf("Negative signals for current market")
        /\ WeightedOverall > Pct(40) /\ WeightedOverall <= Pct(45) =>
              /\ analysis_data.recommendation = "SELL"
              /\ analysis_data.confidence = Scale - WeightedOverall
              /\ analysis_data.reasoning =
                     ReasoningOf("Negative signals with good confidence for current market")

\* C12 witness: an overall score of 0.62 took the tighter BUY branch.
C12_Witness ==
    /\ pc = "combined"
    /\ WeightedOverall = Pct(62)
    /\ analysis_data.recommendation = "BUY"
    /\ analysis_data.reasoning =
           "Strong positive signals for current market (score: 0.62)"

\* C13: the overall score is sentiment*0.4 + historical*0.3 + risk*0.3 of
\* the three signal scores alone (no hype score enters it); for all signal
\* scores in [0,1] the overall score and the confidence lie in [0,1].
C13_WeightedOverallInUnitInterval ==
    pc = "combined" =>
        /\ chain_of_thought[5] = "    - Overall Score: " \o Fmt2(WeightedOverall)
        /\ analysis_data.confidence \in {WeightedOverall, Scale - WeightedOverall, Half}
        /\ analysis_data.recommendation = "BUY" =>
               analysis_data.confidence = WeightedOverall
        /\ analysis_data.recommendation = "SELL" =>
               analysis_data.confidence = Scale - WeightedOverall
        /\ InUnitInterval(WeightedOverall)
        /\ InUnitInterval(analysis_data.confidence)

\* C13 witness: all three signal scores are 1.0 and the combiner returned
\* BUY with confidence 1.0, the largest overall score.
C13_Witness ==
    /\ pc = "combined"
    /\ parts.sentiment_score = Scale
    /\ parts.historical_score = Scale
    /\ parts.risk_score = Scale
    /\ analysis_data.recommendation = "BUY"
    /\ analysis_data.confidence = Scale

\* 0.5 when no keyword was found, else pos / (pos + neg)
SubScore(pos, neg) == IF pos + neg = 0 THEN Half ELSE (pos * Scale) \div (pos + neg)

\* STEP 2 of the analysis of the market has run
SentimentScored == variant = "ai" /\ pc \in {"step3", "step4", "step5", "done"}

\* the news and social sub-scores and the mean, given the reddit sub-score
SentimentIs(reddit) ==
    LET q == market.question
        news == SubScore(Count(AI_positive_econ, q), Count(AI_negative_econ, q))
        social == SubScore(Count(AI_positive_social, q), Count(AI_negative_social, q))
    IN /\ InTrace("    - Reddit sentiment: " \o Fmt2(reddit))
       /\ InTrace("    - News sentiment: " \o Fmt2(news))
       /\ InTrace("    - Social sentiment: " \o Fmt2(social))
       /\ parts.sentiment_score = (reddit + news + social) \div 3

\* C14 as stated: each sub-score is 0.5 without keyword and pos/(pos+neg)
\* otherwise, pos and neg counting the keywords of all the sub-channel's
\* keyword sets; the sentiment score is the mean of the three.
C14_SubScoresOverAllKeywords ==
    SentimentScored =>
        LET q == market.question
        IN SentimentIs(SubScore(
               Count(AI_positive_current, q) + Count(AI_positive_words, q),
               Count(AI_negative_current, q) + Count(AI_negative_words, q)))

\* C14 as amended: the news and social sub-scores are 0.5 without keyword
\* and pos/(pos+neg) otherwise; the reddit sub-score is computed in the
\* same way from its current-topic keywords alone when the question has
\* any of them, and from its general keywords only when it has none; the
\* sentiment score is the mean of the three.
C14_SubScoresRedditTiered ==
    SentimentScored =>
        LET q == market.question
            cur_pos == Count(AI_positive_current, q)
            cur_neg == Count(AI_negative_current, q)
        IN SentimentIs(IF cur_pos + cur_neg > 0
                       THEN SubScore(cur_pos, cur_neg)
                       ELSE SubScore(Count(AI_positive_words, q),
                                     Count(AI_negative_words, q)))

\* C14 witness: a question with one positive current-topic keyword and one
\* negative general keyword got the reddit sub-score 1.0, and one with two
\* positive and no negative news keywords got the news sub-score 1.0.
C14_Witness ==
    /\ SentimentScored
    /\ Count(AI_positive_current, market.question) = 1
    /\ Count(AI_negative_current, market.question) = 0
    /\ Count(AI_negative_words, market.question) = 1
    /\ InTrace("    - Reddit sentiment: 1.00")
    /\ InTrace("    - News sentiment: 1.00")
    /\ parts.sentiment_score = (Scale + Scale + Half) \div 3

\* The hype score the selection loop of the running analyzer gives the
\* market (urgency bonus and cap included; 0 when the market is not kept)
HypeScoreOf(mk) ==
    IF variant = "enhanced" THEN Enh_filter_market(mk).hype_score
    ELSE Simple_filter_market(mk).hype_score

\* the selection loop kept the market and stored its hype score
HypeStored == variant \in HypeVariants /\ pc = "kept"

\* C15: the hype score is non-decreasing in volume with liquidity and end
\* date fixed, and non-decreasing in liquidity with volume and end date
\* fixed, urgency bonus and cap at 1.0 included: no market with less volume
\* or less liquidity than the stored one scores higher.
C15_HypeMonotone ==
    HypeStored =>
        /\ \A v \in Volumes :
               ~FloatRaises(v) /\ FloatOf(v) <= FloatOf(market.volume) =>
                   HypeScoreOf([market EXCEPT !.volume = v]) <= parts.hype_score
        /\ \A l \in Liquidities :
               ~FloatRaises(l) /\ FloatOf(l) <= FloatOf(market.liquidity) =>
                   HypeScoreOf([market EXCEPT !.liquidity = l]) <= parts.hype_score

\* C15 witness: a kept market of volume 120000 scores strictly more than
\* a kept market of less volume and the same liquidity and end date would.
C15_Witness ==
    /\ HypeStored
    /\ FloatOf(market.volume) = 120000
    /\ \E v \in Volumes :
           /\ ~FloatRaises(v) /\ FloatOf(v) < 120000
           /\ HypeScoreOf([market EXCEPT !.volume = v]) > 0
           /\ HypeScoreOf([market EXCEPT !.volume = v]) < parts.hype_score

NothingSurvived ==
    /\ supplied = 0 /\ active_markets = <<>>
    /\ pc \notin {"start", "filter"}
    /\ result.error \notin {"Failed to fetch markets",
                             "ValueError: could not convert string to float"}

\* the result reports an outcome without any recommendation
EmptyOutcome ==
    /\ ~result.raised
    /\ IF variant = "ai"
       THEN /\ result.success
            /\ result.total_analyzed = 0
            /\ result.recommendations = <<>>
       ELSE /\ ~result.success
            /\ result.error = (IF variant = "enhanced" THEN "No active markets found"
                               ELSE "No hype markets found")
            /\ result.results = <<>>

\* C17: when no market survives filtering the run does not raise; it ends
\* by returning a result without recommendations that no run with
\* recommendations returns.
C17_EmptyOutcomeReturned ==
    /\ NothingSurvived => pc \in {"analyze", "done"} /\ recommendations = <<>>
    /\ NothingSurvived /\ pc = "analyze" => ENABLED AI_Finish
    /\ NothingSurvived /\ pc = "done" => EmptyOutcome
    /\ pc = "done" /\ supplied > 0 =>
          /\ recommendations # <<>>
          /\ result.success
          /\ variant = "ai" => result.total_analyzed > 0
          /\ variant \in HypeVariants => result.research_results # <<>>

\* C17 witness: a run of ai_trading_system whose filter kept nothing has
\* returned the summary of zero analysed markets.
C17_Witness ==
    /\ variant = "ai" /\ pc = "done"
    /\ NothingSurvived
    /\ result.success
    /\ result.total_analyzed = 0
    /\ result.recommendations = <<>>

\* The section headers of the five steps, in order
StepHeaders ==
    <<"STEP 1: Analyzing Polymarket Data",
      "\nSTEP 2: Market Sentiment Analysis",
      "\nSTEP 3: Historical Performance Analysis",
      "\nSTEP 4: Risk Assessment",
      "\nSTEP 5: Generate Trading Recommendation">>

\* the positions of the header of step k in the trace
HeaderAt(k) == {i \in DOMAIN chain_of_thought : chain_of_thought[i] = StepHeaders[k]}

\* the number of steps that have written their section
StepsDone ==
    CASE pc = "step2" -> 1
      [] pc = "step3" -> 2
      [] pc = "step4" -> 3
      [] pc = "step5" -> 4
      [] pc = "done" -> 5
      [] OTHER -> 0

\* the lines of the trace strictly between positions a and b
Between(a, b) == SubSeq(chain_of_thought, a + 1, b - 1)

\* the sections of the finished trace hold the lines of their scorers
SectionsInPlace ==
    LET p2 == CHOOSE i \in HeaderAt(2) : TRUE
        p3 == CHOOSE i \in HeaderAt(3) : TRUE
        p4 == CHOOSE i \in HeaderAt(4) : TRUE
        p5 == CHOOSE i \in HeaderAt(5) : TRUE
    IN /\ Between(p2, p3) = AI_analyze_market_sentiment(market.question).analysis
       /\ Between(p3, p4) = AI_analyze_historical_performance(event, market).analysis
       /\ Between(p4, p5) =
              AI_assess_trading_risk(market, analysis_data.days_until_end).analysis
       /\ InTrace("  Recommendation: " \o analysis_data.recommendation)
       /\ \A i \in DOMAIN chain_of_thought :
              chain_of_thought[i] = "  Recommendation: " \o analysis_data.recommendation
                  => i > p5

\* the trace has one header for each step that has run, in step order, the
\* first at its head, and none for a step still to run
HeadersInOrder ==
    /\ \A k \in 1..5 : Cardinality(HeaderAt(k)) = (IF k <= StepsDone THEN 1 ELSE 0)
    /\ StepsDone >= 1 => HeaderAt(1) = {1}
    /\ \A k \in 1..4 : \A i \in HeaderAt(k) : \A j \in HeaderAt(k + 1) : i < j

\* s is an initial segment of t
IsPrefix(s, t) == Len(s) <= Len(t) /\ SubSeq(t, 1, Len(s)) = s

\* C18: the reasoning trace of an analysed market only grows by appending;
\* it has exactly one header for each of STEP 1 .. STEP 5, in that order,
\* each scorer's lines between its header and the next; the finished trace
\* is the one attached to the returned recommendation.
C18_TraceAppendOnlyFiveSections ==
    /\ [][IsPrefix(chain_of_thought, chain_of_thought')]_vars
    /\ [](variant = "ai" =>
            /\ HeadersInOrder
            /\ pc = "done" =>
                  /\ SectionsInPlace
                  /\ analysis_data.chain_of_thought = chain_of_thought)

\* C18 witness: an analysis has returned with its trace of five sections
\* attached, the last line of which is the reasoning of the recommendation.
C18_Witness ==
    /\ variant = "ai" /\ pc = "done"
    /\ \A k \in 1..5 : Cardinality(HeaderAt(k)) = 1
    /\ analysis_data.chain_of_thought = chain_of_thought
    /\ chain_of_thought[Len(chain_of_thought)] =
           "  Reasoning: " \o analysis_data.reasoning

\* the spellings of the high-volatility categories among the categories of
\* the model, compared without regard to case
HighVolatility ==
    {"sports", "Sports", "SPORTS", "politics", "Politics", "POLITICS",
     "crypto", "Crypto", "CRYPTO"}

\* 0.5 + v + l + c of C19, before the clamp
HistoricalFormula(volume, liquidity, category) ==
    Half
    + (IF volume > 100000 THEN Pct(20)
       ELSE IF volume > 50000 THEN Pct(10)
       ELSE IF volume > 10000 THEN 0
       ELSE -Pct(10))
    + (IF liquidity > 10000 THEN Pct(20)
       ELSE IF liquidity > 1000 THEN Pct(10)
       ELSE IF liquidity > 100 THEN 0
       ELSE -Pct(20))
    + (IF category \in HighVolatility THEN Pct(10) ELSE 0)

\* C19: the historical score is clamp[0,1](0.5 + v + l + c) with v by the
\* volume bands (> 100000, > 50000, > 10000), l by the liquidity bands
\* (> 10000, > 1000, > 100) and c = +0.1 exactly for a category that is
\* sports, politics or crypto whatever its case.
C19_HistoricalScoreFormula ==
    variant = "ai" /\ pc \in {"step4", "step5", "done"} =>
        LET score == HistoricalFormula(parts.volume, parts.liquidity, event.category)
        IN parts.historical_score =
               (IF score < 0 THEN 0 ELSE IF score > Scale THEN Scale ELSE score)

\* C19 witness: volume 120000, liquidity 15000 and the category "Sports"
\* give the historical score 1.0.
C19_Witness ==
    /\ variant = "ai" /\ pc = "done"
    /\ parts.volume = 120000
    /\ parts.liquidity = 15000
    /\ event.category = "Sports"
    /\ analysis_data.historical_score = Scale

\* 0.5 + t + l of C20, before the clamp
RiskFormula(days_until_end, liquidity) ==
    Half
    + (IF days_until_end <= 1 THEN -Pct(30)
       ELSE IF days_until_end <= 3 THEN -Pct(20)
       ELSE IF days_until_end <= 7 THEN -Pct(10)
       ELSE IF days_until_end <= 30 THEN Pct(10)
       ELSE Pct(20))
    + (IF liquidity > 5000 THEN Pct(10)
       ELSE IF liquidity > 1000 THEN 0
       ELSE -Pct(20))

\* the numbers of days the end timestamps of the model lie ahead
DayGrid == {DaysOf(ts) : ts \in {e \in EndStamps : e.kind = "naive"}}

\* C20: the risk score is clamp[0,1](0.5 + t + l) with t by the bands of
\* days_until_end (<= 1, <= 3, <= 7, <= 30) and l by the liquidity bands
\* (> 5000, > 1000); no market with fewer days left or with less liquidity
\* than the scored one has a higher risk score.
C20_RiskScoreFormulaMonotone ==
    variant = "ai" /\ pc \in {"step5", "done"} =>
        LET score == RiskFormula(parts.days_until_end, parts.liquidity)
        IN /\ parts.risk_score =
                  (IF score < 0 THEN 0 ELSE IF score > Scale THEN Scale ELSE score)
           /\ \A d \in DayGrid :
                  d <= parts.days_until_end =>
                      AI_assess_trading_risk(market, d).score <= parts.risk_score
           /\ \A l \in Liquidities :
                  ~FloatRaises(l) /\ FloatOf(l) <= parts.liquidity =>
                      AI_assess_trading_risk([market EXCEPT !.liquidity = l],
                                             parts.days_until_end).score
                          <= parts.risk_score

\* C20 witness: 45 days and liquidity 15000 give the risk score 0.8, more
\* than the same market would get with 30 days left.
C20_Witness ==
    /\ variant = "ai" /\ pc = "done"
    /\ parts.days_until_end = 45
    /\ parts.liquidity = 15000
    /\ analysis_data.risk_score = Pct(80)
    /\ AI_assess_trading_risk(market, 30).score < analysis_data.risk_score

\* the market ends at a known instant at most 7 days from now
EndsWithinAWeek(ts) ==
    /\ ts.kind \in {"naive", "zulu", "offset"}
    /\ ts.t >= 0
    /\ ts.t \div TicksPerDay <= 7

\* volume component plus liquidity component of the running analyzer
HypeBase(mk) ==
    IF variant = "enhanced"
    THEN Enh_volume_component(FloatOf(mk.volume))
         + Enh_liquidity_component(FloatOf(mk.liquidity))
    ELSE Simple_volume_component(FloatOf(mk.volume))
         + Simple_liquidity_component(FloatOf(mk.liquidity))

\* C21: the hype score is the volume component (at most 0.6) plus the
\* liquidity component (at most 0.4), plus 0.2 exactly when the market
\* resolves within 7 days, clamped to [0,1].
C21_HypeBonusWithinSevenDays ==
    HypeStored =>
        LET base == HypeBase(market)
            score == base + (IF EndsWithinAWeek(event.endDate) THEN Pct(20) ELSE 0)
        IN /\ base <= Pct(60) + Pct(40)
           /\ parts.hype_score = (IF score > Scale THEN Scale ELSE score)


\* C22: per-market analyses share no mutable state; in particular no step
\* of an analysis modifies the input market record or the input event
\* record.
C22_InputRecordsUnmodified ==
    [][market' = market /\ event' = event]_vars


\* run_trading_analysis has returned its summary
AI_Returned == variant = "ai" /\ pc = "done" /\ result.success

\* C23: in the summary of run_trading_analysis the buy, sell and hold counts
\* add up to total_analyzed, which is the number of returned
\* recommendations and at most 15; the analysed markets are exactly the
\* first (up to 15) markets the activity filter kept, in their input order.
C23_CountsMatchFirstFifteen ==
    AI_Returned =>
        LET recs == result.recommendations
        IN /\ result.buy_recommendations + result.sell_recommendations
                  + result.hold_recommendations = result.total_analyzed
           /\ result.buy_recommendations = CountRecommendation(recs, "BUY")
           /\ result.sell_recommendations = CountRecommendation(recs, "SELL")
           /\ result.hold_recommendations = CountRecommendation(recs, "HOLD")
           /\ result.total_analyzed = Len(recs)
           /\ Len(recs) <= 15
           /\ Len(recs) = (IF Len(active_markets) < 15 THEN Len(active_markets) ELSE 15)
           /\ \A i \in DOMAIN recs :
                  /\ recs[i].market_id = active_markets[i].market.id
                  /\ recs[i].event_id = active_markets[i].event.id
                  /\ recs[i].question = active_markets[i].market.question

\* C23 witness: the filter kept more than 15 markets, the last of them
\* unlike the first, and the summary counts the 15 analysed ones.
C23_Witness ==
    /\ AI_Returned
    /\ Len(active_markets) > 15
    /\ active_markets[Len(active_markets)].market.id # active_markets[1].market.id
    /\ result.total_analyzed = 15
    /\ result.buy_recommendations + result.sell_recommendations
           + result.hold_recommendations = 15


\* C24: every recommendation of the combiner has confidence >= 0.5; BUY and
\* SELL come with confidence >= 0.55, HOLD with confidence exactly 0.5, and
\* no confidence lies strictly between 0.5 and 0.55.
C24_ConfidenceCoherent ==
    pc = "combined" =>
        /\ analysis_data.recommendation \in {"BUY", "SELL", "HOLD"}
        /\ analysis_data.confidence >= Half
        /\ analysis_data.recommendation = "BUY" => analysis_data.confidence >= Pct(55)
        /\ analysis_data.recommendation = "SELL" => analysis_data.confidence >= Pct(55)
        /\ analysis_data.recommendation = "HOLD" => analysis_data.confidence = Half
        /\ ~(analysis_data.confidence > Half /\ analysis_data.confidence < Pct(55))

\* C24 witness: an overall score of exactly 0.45 resolved to SELL with
\* confidence 0.55, the smallest confidence a SELL can carry.
C24_Witness ==
    /\ pc = "combined"
    /\ WeightedOverall = Pct(45)
    /\ analysis_data.recommendation = "SELL"
    /\ analysis_data.confidence = Pct(55)


\* The score the selection loop compares with 0.1: volume and liquidity
\* components plus the urgency bonus the loop grants
HypeRawScore(mk, end_date) == HypeBase(mk) + Hype_urgency_bonus(end_date)

\* C25: the selections of the enhanced and simple analyzers keep a market
\* only if its hype score, urgency bonus included, is strictly greater than
\* 0.1, so every selected market has a stored hype_score in (0.1, 1.0]; a
\* market with positive liquidity whose score is at most 0.1 is dropped
\* whatever the number of markets selected so far.
C25_SelectedOnlyAboveThreshold ==
    variant \in HypeVariants =>
        /\ \A i \in DOMAIN active_markets :
               /\ HypeRawScore(active_markets[i].market, FilterStamp(active_markets[i]))
                      > Pct(10)
               /\ active_markets[i].hype_score > Pct(10)
               /\ active_markets[i].hype_score <= Scale
        /\ Decided /\ parts.outcome = "kept" =>
               /\ parts.hype_score > Pct(10)
               /\ parts.hype_score <= Scale
        /\ Decided /\ parts.outcome = "low_score" =>
               /\ FloatOf(market.liquidity) > 0
               /\ HypeRawScore(market, FilterStamp([market |-> market])) <= Pct(10)
               /\ active_markets = <<>>
                      \/ active_markets[Len(active_markets)].market # market

\* C25 witness: a market with positive liquidity that has not ended was
\* dropped for its score while fewer than 5 markets were selected, and the
\* loop may end there.
C25_Witness ==
    /\ variant \in HypeVariants /\ Decided
    /\ parts.outcome = "low_score"
    /\ FloatOf(market.liquidity) > 0
    /\ ~HasEnded(FilterStamp([market |-> market]))
    /\ Len(active_markets) < TopK
    /\ ENABLED Hype_Select


\* research_market of the running analyzer has returned
Researched == variant \in HypeVariants /\ pc = "done"

\* the three sentiment sub-scores of the research result
ResearchScores ==
    <<analysis_data.reddit_sentiment, analysis_data.news_sentiment,
      analysis_data.web_sentiment>>

\* at least two of the three sub-scores are above the positive threshold
\* (0.6 enhanced, 0.5 simple)
TwoAbove ==
    LET t == IF variant = "enhanced" THEN Pct(60) ELSE Pct(50)
    IN Cardinality({i \in 1..3 : ResearchScores[i] > t}) >= 2

\* at least two of the three sub-scores are below the negative threshold
\* (0.4 enhanced, 0.3 simple)
TwoBelow ==
    LET t == IF variant = "enhanced" THEN Pct(40) ELSE Pct(30)
    IN Cardinality({i \in 1..3 : ResearchScores[i] < t}) >= 2

\* the market with the same id and question and nothing else of its own
QuestionOnly(mk) ==
    IF variant = "enhanced"
    THEN [id |-> mk.id, question |-> mk.question, volume |-> NumMissing,
          liquidity |-> NumMissing, endDate |-> StampMissing, event_id |-> "",
          event_category |-> "", event_end_date |-> StampMissing]
    ELSE [id |-> mk.id, question |-> mk.question, volume |-> NumMissing,
          liquidity |-> NumMissing, endDate |-> StampMissing]

\* C26: research_market answers BUY with confidence_score 0.7 iff at least
\* two of the three sub-scores are above the positive threshold, SELL with
\* 0.3 iff that does not hold and at least two are below the negative
\* threshold, HOLD with 0.5 otherwise; the two conditions never hold
\* together, and the result is the one of a market that shares only the
\* question (and id) with the researched one.
C26_ResearchTwoOfThree ==
    Researched =>
        /\ analysis_data.recommendation = "BUY" <=> TwoAbove
        /\ analysis_data.recommendation = "SELL" <=> ~TwoAbove /\ TwoBelow
        /\ analysis_data.recommendation = "HOLD" <=> ~TwoAbove /\ ~TwoBelow
        /\ analysis_data.recommendation = "BUY" => analysis_data.confidence_score = Pct(70)
        /\ analysis_data.recommendation = "SELL" => analysis_data.confidence_score = Pct(30)
        /\ analysis_data.recommendation = "HOLD" => analysis_data.confidence_score = Pct(50)
        /\ ~(TwoAbove /\ TwoBelow)
        /\ analysis_data = (IF variant = "enhanced"
                            THEN Enh_research_market(QuestionOnly(market))
                            ELSE Simple_research_market(QuestionOnly(market)))

\* C26 witness: a market with volume, liquidity and an end date of its own
\* was researched and two sub-scores below the negative threshold made it a
\* SELL with confidence_score 0.3.
C26_Witness ==
    /\ Researched
    /\ market # QuestionOnly(market)
    /\ TwoBelow /\ ~TwoAbove
    /\ analysis_data.recommendation = "SELL"
    /\ analysis_data.confidence_score = Pct(30)

====
